---- MODULE Spec2Model ----
(***************************************************************************)
(* Model of phonemizer/backend/espeak/api.py: the EspeakAPI class.  Each   *)
(* instance creates a temporary directory, registers a weakref finalizer,  *)
(* loads the system espeak library to find its path, copies the library    *)
(* into the temporary directory, loads and initializes the copy, and       *)
(* exposes thin ctypes calls.  The dynamic loader, the filesystem under    *)
(* the temporary root and the interpreter's finalizer registry are the     *)
(* environment of the class and are modelled by what the code relies on.   *)
(***************************************************************************)
EXTENDS Integers, Sequences, FiniteSets, TLC

\* number of EspeakAPI(...) constructor calls the process makes
MaxInst == 2

Instances == 1..MaxInst

\* ---------------------------------------------------------------------
\* Paths are sequences of components; None is the empty sequence.
\* ---------------------------------------------------------------------
None == <<>>

Name(p) == p[Len(p)]

Inside(p, d) == Len(p) > Len(d) /\ SubSeq(p, 1, Len(d)) = d

\* names tempfile.mkdtemp() can pick: as many as there are constructor calls
TempDirs == {<<"tmp", ToString(k)>> : k \in 1..MaxInst}

\* ---------------------------------------------------------------------
\* The libraries the caller can name (argument `library` of __init__).
\*   opens      : ctypes.cdll.LoadLibrary(library) succeeds
\*   dlpath     : the path the dynamic linker recorded for the handle
\*   resolvable : dlinfo.DLInfo(handle).path can be read
\*   api        : the library exports the espeak_* entry points
\* ---------------------------------------------------------------------
LibNames == {"espeak-ng", "libc.so.6", "nonexistent.so", "static-blob"}

LibTable ==
    [n \in LibNames |->
        CASE n = "espeak-ng" ->
               [opens |-> TRUE, resolvable |-> TRUE, api |-> TRUE,
                dlpath |-> <<"usr", "lib", "libespeak-ng.so.1">>]
          [] n = "libc.so.6" ->
               [opens |-> TRUE, resolvable |-> TRUE, api |-> FALSE,
                dlpath |-> <<"lib", "libc.so.6">>]
          [] n = "static-blob" ->
               [opens |-> TRUE, resolvable |-> FALSE, api |-> TRUE,
                dlpath |-> None]
          [] OTHER ->
               [opens |-> FALSE, resolvable |-> FALSE, api |-> FALSE,
                dlpath |-> None]]

\* symbolic links of the system library directories
Symlinks(p) ==
    IF p = <<"usr", "lib", "libespeak-ng.so.1">>
    THEN <<"usr", "lib", "libespeak-ng.so.1.52">>
    ELSE p

\* pathlib.Path(dlinfo.DLInfo(library).path).resolve()
shared_library_path(n) == Symlinks(LibTable[n].dlpath)

\* whether the file at a system path exports the espeak_* entry points
ExportsApi(p) ==
    \E n \in LibNames :
        LibTable[n].opens /\ LibTable[n].resolvable /\ LibTable[n].api
        /\ shared_library_path(n) = p

\* values espeak_Initialize can return: an error code, zero, a sample rate
InitReturns == {-1, 0, 1}

\* values espeak_Terminate can return: EE_OK or EE_INTERNAL_ERROR
TermReturns == {0, -1}

\* ---------------------------------------------------------------------
\* Pieces of __init__ and _terminate that decide the claims.
\* ---------------------------------------------------------------------
\* espeak_copy = pathlib.Path(self._tempdir) / library_path.name
espeak_copy(d, lp) == d \o <<Name(lp)>>

LoadTarget_Original(d, lp) == lp

\* the file handed to the second LoadLibrary call
LoadTarget(d, lp) == espeak_copy(d, lp)

InitFailed_Negative(r) == r < 0

\* if self._library.espeak_Initialize(0x02, 0, None, 0) <= 0: raise
InitFailed(r) == r <= 0

RetainedPath_Copy(d, lp) == espeak_copy(d, lp)

\* self._library_path = library_path
RetainedPath(d, lp) == lp

HasLibrary_Never(l) == FALSE

\* if self._library:
HasLibrary(l) == l # None

\* weakref.finalize(self, self._terminate): the callback is a bound method
\* of the instance, so the finalizer registry owns a strong reference to it
FinalizerOwnsObj == TRUE

VARIABLES
    phase,          \* "running", "atexit", "exited" or "crashed"
    pc,             \* per instance: position in __init__
    libname,        \* per instance: the `library` argument
    tempdir,        \* per instance: self._tempdir
    library,        \* per instance: self._library (path of the loaded module)
    library_path,   \* per instance: self._library_path
    lp,             \* per instance: the local variable library_path
    err,            \* per instance: the exception __init__ raised
    initRes,        \* per instance: <<r>> once espeak_Initialize returned r
    log,            \* per instance: the steps of __init__ executed so far
    callerRef,      \* per instance: the caller holds the constructed instance
    finalizers,     \* live weakref finalizers, in registration order
    torn,           \* per instance: outcome of _terminate
    fs,             \* paths existing under the temporary root
    modules,        \* loaded modules by file path, with their global state
    lastCall        \* the low-level call the last step made, if it made one

vars == <<phase, pc, libname, tempdir, library, library_path, lp, err,
          initRes, log, callerRef, finalizers, torn, fs, modules, lastCall>>

NoCall == [native |-> FALSE, outcome |-> "none", torn |-> FALSE,
           nullText |-> FALSE, knownMode |-> TRUE]

\* outcome of _terminate: it ran (and while the process was still running),
\* it raised, espeak_Terminate was called (with the temporary directory
\* still present, returning status), the directory was removed
NotTorn == [ran |-> FALSE, whileRunning |-> FALSE, raised |-> FALSE,
            terminated |-> FALSE, dirPresent |-> FALSE, status |-> 0,
            removed |-> FALSE]

\* files a module can be loaded from: the system libraries and their copies
SysPaths == {shared_library_path(n) :
                n \in {m \in LibNames : LibTable[m].opens /\ LibTable[m].resolvable}}

ModulePaths == SysPaths \cup {espeak_copy(d, p) : d \in TempDirs, p \in SysPaths}

\* a copy exports what the file it was copied from exports
ModuleApi(p) == \E q \in SysPaths : Name(q) = Name(p) /\ ExportsApi(q)

Unloaded(p) == [loaded |-> FALSE, api |-> ModuleApi(p), inits |-> 0,
                terms |-> 0, voice |-> "default"]

\* voices espeak_SetVoiceByName knows
Voices == {"en"}

VoiceArgs == Voices \cup {"zz"}

Init ==
    /\ phase = "running"
    /\ pc = [i \in Instances |-> "new"]
    /\ libname = [i \in Instances |-> "none"]
    /\ tempdir = [i \in Instances |-> None]
    /\ library = [i \in Instances |-> None]
    /\ library_path = [i \in Instances |-> None]
    /\ lp = [i \in Instances |-> None]
    /\ err = [i \in Instances |-> "none"]
    /\ initRes = [i \in Instances |-> <<>>]
    /\ log = [i \in Instances |-> <<>>]
    /\ callerRef = [i \in Instances |-> FALSE]
    /\ finalizers = <<>>
    /\ torn = [i \in Instances |-> NotTorn]
    /\ fs = {}
    /\ modules = [p \in ModulePaths |-> Unloaded(p)]
    /\ lastCall = NoCall

\* ---------------------------------------------------------------------
\* __init__, one action per statement that can fail or that other
\* constructor calls can interleave with.
\* ---------------------------------------------------------------------
\* raise RuntimeError(f'failed to load espeak library: ...') from None
LoadError == "RuntimeError: failed to load espeak library"

\* raise RuntimeError('failed to initialize espeak shared library')
InitError == "RuntimeError: failed to initialize espeak shared library"

\* raise RuntimeError(f'failed to retrieve the path to {library} library')
PathError == "RuntimeError: failed to retrieve the path to library"

Raise(i, e) ==
    /\ pc' = [pc EXCEPT ![i] = "raised"]
    /\ err' = [err EXCEPT ![i] = e]

Logged(i, steps) == log' = [log EXCEPT ![i] = @ \o steps]

\* dlopen returns the module already loaded from a path, or loads it
dlopen(p) == [modules EXCEPT ![p].loaded = TRUE]

\* self._library = None; self._tempdir = tempfile.mkdtemp();
\* weakref.finalize(self, self._terminate)
Mkdtemp(i, n, d) ==
    /\ phase = "running"
    /\ pc[i] = "new"
    /\ \A j \in Instances : j < i => pc[j] # "new"
    /\ d \notin fs
    /\ libname' = [libname EXCEPT ![i] = n]
    /\ library' = [library EXCEPT ![i] = None]
    /\ tempdir' = [tempdir EXCEPT ![i] = d]
    /\ fs' = fs \cup {d}
    /\ finalizers' = Append(finalizers, i)
    /\ pc' = [pc EXCEPT ![i] = "load_original"]
    /\ Logged(i, <<"mkdtemp">>)
    /\ UNCHANGED <<phase, library_path, lp, err, initRes, callerRef, torn,
                   modules>>
    /\ lastCall' = NoCall

\* espeak = ctypes.cdll.LoadLibrary(library)
\* library_path = self._shared_library_path(espeak); del espeak
\* an OSError of the first statement is raised as a RuntimeError, the
\* RuntimeError of the second passes through
LoadOriginal(i) ==
    /\ pc[i] = "load_original"
    /\ IF ~LibTable[libname[i]].opens
       THEN /\ Logged(i, <<"load_original">>)
            /\ Raise(i, LoadError)
            /\ UNCHANGED <<modules, lp>>
       ELSE IF ~LibTable[libname[i]].resolvable
       THEN /\ Logged(i, <<"load_original", "resolve_path">>)
            /\ Raise(i, PathError)
            /\ UNCHANGED <<modules, lp>>
       ELSE /\ Logged(i, <<"load_original", "resolve_path">>)
            /\ modules' = dlopen(shared_library_path(libname[i]))
            /\ lp' = [lp EXCEPT ![i] = shared_library_path(libname[i])]
            /\ pc' = [pc EXCEPT ![i] = "copy"]
            /\ UNCHANGED err
    /\ UNCHANGED <<phase, libname, tempdir, library, library_path,
                   initRes, callerRef, finalizers, torn, fs>>
    /\ lastCall' = NoCall

\* shutil.copy(library_path, espeak_copy, follow_symlinks=False)
Copy(i, ok) ==
    /\ pc[i] = "copy"
    /\ Logged(i, <<"copy">>)
    /\ IF ok
       THEN /\ fs' = fs \cup {espeak_copy(tempdir[i], lp[i])}
            /\ pc' = [pc EXCEPT ![i] = "load_copy"]
            /\ UNCHANGED err
       ELSE /\ Raise(i, "OSError: copy failed")
            /\ UNCHANGED fs
    /\ UNCHANGED <<phase, libname, tempdir, library, library_path, lp,
                   initRes, callerRef, finalizers, torn, modules>>
    /\ lastCall' = NoCall

\* self._library = ctypes.cdll.LoadLibrary(espeak_copy)
LoadCopy(i) ==
    /\ pc[i] = "load_copy"
    /\ Logged(i, <<"load_copy">>)
    /\ library' = [library EXCEPT ![i] = LoadTarget(tempdir[i], lp[i])]
    /\ modules' = dlopen(LoadTarget(tempdir[i], lp[i]))
    /\ pc' = [pc EXCEPT ![i] = "initialize"]
    /\ UNCHANGED <<phase, libname, tempdir, library_path, lp, err, initRes,
                   callerRef, finalizers, torn, fs>>
    /\ lastCall' = NoCall

\* if self._library.espeak_Initialize(0x02, 0, None, 0) <= 0: raise
\* self._library_path = library_path, and __init__ returns the instance
\* to the caller
Initialize(i, r) ==
    /\ pc[i] = "initialize"
    /\ IF ~modules[library[i]].api
       THEN /\ Logged(i, <<"initialize">>)
            /\ Raise(i, "AttributeError: espeak_Initialize")
            /\ UNCHANGED <<modules, initRes, library_path, callerRef>>
       ELSE /\ modules' = [modules EXCEPT ![library[i]].inits = @ + 1]
            /\ initRes' = [initRes EXCEPT ![i] = <<r>>]
            /\ IF InitFailed(r)
               THEN /\ Logged(i, <<"initialize">>)
                    /\ Raise(i, InitError)
                    /\ UNCHANGED <<library_path, callerRef>>
               ELSE /\ Logged(i, <<"initialize", "retain">>)
                    /\ library_path' = [library_path EXCEPT
                                          ![i] = RetainedPath(tempdir[i], lp[i])]
                    /\ callerRef' = [callerRef EXCEPT ![i] = TRUE]
                    /\ pc' = [pc EXCEPT ![i] = "done"]
                    /\ UNCHANGED err
    /\ UNCHANGED <<phase, libname, tempdir, library, lp, finalizers, torn,
                   fs>>
    /\ lastCall' = NoCall

\* ---------------------------------------------------------------------
\* _terminate.  A statement maps the pair [modules, fs] and the outcome
\* record t to what they are after it; a statement reached after an
\* exception was raised does nothing.
\* ---------------------------------------------------------------------
\* if self._library: self._library.espeak_Terminate()
TerminateStep(i, s, st) ==
    IF st.t.raised \/ ~HasLibrary(library[i])
    THEN st
    ELSE IF ~st.modules[library[i]].api
    THEN [st EXCEPT !.t.raised = TRUE]
    ELSE [st EXCEPT !.modules[library[i]].terms = @ + 1,
                    !.t.terminated = TRUE,
                    !.t.dirPresent = tempdir[i] \in st.fs,
                    !.t.status = s]

\* shutil.rmtree(self._tempdir)
RmtreeStep(i, st) ==
    IF st.t.raised
    THEN st
    ELSE IF tempdir[i] \notin st.fs
    THEN [st EXCEPT !.t.raised = TRUE]
    ELSE [st EXCEPT !.fs = {q \in @ : q # tempdir[i] /\ ~Inside(q, tempdir[i])},
                    !.t.removed = TRUE]

terminate_RmtreeFirst(i, s, st) == TerminateStep(i, s, RmtreeStep(i, st))

terminate(i, s, st) == RmtreeStep(i, TerminateStep(i, s, st))

\* the finalizer of instance i fires: it is dead from then on, and calls
\* the callback once
Finalize(i, s) ==
    LET r == terminate(i, s, [modules |-> modules, fs |-> fs,
                              t |-> [NotTorn EXCEPT !.ran = TRUE,
                                !.whileRunning = (phase = "running")]])
    IN /\ modules' = r.modules
       /\ fs' = r.fs
       /\ torn' = [torn EXCEPT ![i] = r.t]
       /\ finalizers' = SelectSeq(finalizers, LAMBDA j : j # i)

Alive(i) == \E k \in 1..Len(finalizers) : finalizers[k] = i

\* the caller drops its last reference to the instance __init__ returned;
\* the instance is collected at once when nothing else owns it
Drop(i, s) ==
    /\ phase = "running"
    /\ pc[i] = "done"
    /\ callerRef[i]
    /\ callerRef' = [callerRef EXCEPT ![i] = FALSE]
    /\ IF Alive(i) /\ ~FinalizerOwnsObj
       THEN Finalize(i, s)
       ELSE UNCHANGED <<modules, fs, torn, finalizers>>
    /\ UNCHANGED <<phase, pc, libname, tempdir, library, library_path, lp,
                   err, initRes, log>>
    /\ lastCall' = NoCall

\* the interpreter exits once every thread has left __init__
Exit ==
    /\ phase = "running"
    /\ \A i \in Instances : pc[i] \in {"new", "done", "raised"}
    /\ phase' = "atexit"
    /\ UNCHANGED <<pc, libname, tempdir, library, library_path, lp, err,
                   initRes, log, callerRef, finalizers, torn, fs, modules>>
    /\ lastCall' = NoCall

\* at exit the live finalizers run in reverse order of creation
RunFinalizer(s) ==
    /\ phase = "atexit"
    /\ finalizers # <<>>
    /\ Finalize(finalizers[Len(finalizers)], s)
    /\ UNCHANGED <<phase, pc, libname, tempdir, library, library_path, lp,
                   err, initRes, log, callerRef>>
    /\ lastCall' = NoCall

ProcessEnd ==
    /\ phase = "atexit"
    /\ finalizers = <<>>
    /\ phase' = "exited"
    /\ UNCHANGED <<pc, libname, tempdir, library, library_path, lp, err,
                   initRes, log, callerRef, finalizers, torn, fs, modules>>
    /\ lastCall' = NoCall

\* ---------------------------------------------------------------------
\* The low-level methods.  Each looks the entry point up on
\* self._library and calls it with the arguments it was given.
\* ---------------------------------------------------------------------
\* code that holds the instance runs: before exit, or in the exit handlers
\* that run after the finalizers
CanCall(i) ==
    /\ phase = "running" \/ (phase = "atexit" /\ finalizers = <<>>)
    /\ pc[i] = "done"
    /\ callerRef[i]

\* a call into a terminated module, or with a null text pointer, is
\* undefined in the native library: it returns or the process dies
Outcomes(i, nullText) ==
    IF modules[library[i]].terms > 0 \/ nullText
    THEN {"returned", "crashed"}
    ELSE {"returned"}

NativeCall(i, nullText, knownMode, o) ==
    /\ CanCall(i)
    /\ o \in Outcomes(i, nullText)
    /\ lastCall' = [native |-> TRUE, outcome |-> o, torn |-> torn[i].ran,
                    nullText |-> nullText, knownMode |-> knownMode]
    /\ phase' = IF o = "crashed" THEN "crashed" ELSE phase
    /\ UNCHANGED <<pc, libname, tempdir, library, library_path, lp, err,
                   initRes, log, callerRef, finalizers, torn, fs>>

info(i, o) ==
    /\ NativeCall(i, FALSE, TRUE, o)
    /\ UNCHANGED modules

list_voices(i, o) ==
    /\ NativeCall(i, FALSE, TRUE, o)
    /\ UNCHANGED modules

set_voice_by_name(i, name, o) ==
    /\ NativeCall(i, FALSE, TRUE, o)
    /\ modules' = IF name \in Voices /\ o = "returned"
                  THEN [modules EXCEPT ![library[i]].voice = name]
                  ELSE modules

get_current_voice(i, o) ==
    /\ NativeCall(i, FALSE, TRUE, o)
    /\ UNCHANGED modules

text_to_phonemes(i, nullText, knownMode, o) ==
    /\ NativeCall(i, nullText, knownMode, o)
    /\ UNCHANGED modules

set_phoneme_trace(i, o) ==
    /\ NativeCall(i, FALSE, TRUE, o)
    /\ UNCHANGED modules

synthetize(i, nullText, knownMode, o) ==
    /\ NativeCall(i, nullText, knownMode, o)
    /\ UNCHANGED modules

CallOutcomes == {"returned", "crashed"}

Next ==
    \/ \E i \in Instances, n \in LibNames, d \in TempDirs : Mkdtemp(i, n, d)
    \/ \E i \in Instances : LoadOriginal(i)
    \/ \E i \in Instances, ok \in BOOLEAN : Copy(i, ok)
    \/ \E i \in Instances : LoadCopy(i)
    \/ \E i \in Instances, r \in InitReturns : Initialize(i, r)
    \/ \E i \in Instances, s \in TermReturns : Drop(i, s)
    \/ Exit
    \/ \E s \in TermReturns : RunFinalizer(s)
    \/ ProcessEnd
    \/ \E i \in Instances, o \in CallOutcomes : info(i, o)
    \/ \E i \in Instances, o \in CallOutcomes : list_voices(i, o)
    \/ \E i \in Instances, name \in VoiceArgs, o \in CallOutcomes :
          set_voice_by_name(i, name, o)
    \/ \E i \in Instances, o \in CallOutcomes : get_current_voice(i, o)
    \/ \E i \in Instances, nt \in BOOLEAN, km \in BOOLEAN, o \in CallOutcomes :
          text_to_phonemes(i, nt, km, o)
    \/ \E i \in Instances, o \in CallOutcomes : set_phoneme_trace(i, o)
    \/ \E i \in Instances, nt \in BOOLEAN, km \in BOOLEAN, o \in CallOutcomes :
          synthetize(i, nt, km, o)

Spec == Init /\ [][Next]_vars

\* ---------------------------------------------------------------------
\* Properties
\* ---------------------------------------------------------------------
\* the temporary directory of i exists and its teardown has not run
Live(i) == pc[i] # "new" /\ ~torn[i].ran

\* what get_current_voice returns on instance b
CurrentVoice(b) == modules[library[b]].voice

StepOrder == <<"mkdtemp", "load_original", "resolve_path", "copy",
               "load_copy", "initialize", "retain">>

IsPrefix(a, b) == Len(a) <= Len(b) /\ SubSeq(b, 1, Len(a)) = a

Finished(i) == pc[i] \in {"done", "raised"}

C1_State ==
    /\ \A i, j \in Instances :
          (i # j /\ Live(i) /\ Live(j)) =>
              /\ tempdir[i] # tempdir[j]
              /\ (library[i] # None /\ library[j] # None)
                     => library[i] # library[j]
    /\ \A i \in Instances :
          library[i] # None =>
              /\ Inside(library[i], tempdir[i])
              /\ modules[library[i]].loaded

C1_Step ==
    \A a, b \in Instances :
        (a # b /\ pc[a] = "done" /\ pc[b] = "done")
        => \/ CurrentVoice(b)' = CurrentVoice(b)
           \/ ~\E name \in VoiceArgs, o \in CallOutcomes :
                  set_voice_by_name(a, name, o)

\* C1: instances that are alive together have distinct temporary
\* directories and distinct library handles, each handle is a module
\* loaded from a file inside its own instance's temporary directory, and a
\* set_voice_by_name step on one instance leaves what get_current_voice
\* returns on every other instance unchanged.
C1_Isolation == [](C1_State) /\ [][C1_Step]_vars

\* two instances of the same library, the voice set on the first only
C1_Witness ==
    /\ pc[1] = "done" /\ pc[2] = "done"
    /\ libname[1] = libname[2]
    /\ CurrentVoice(1) = "en"
    /\ CurrentVoice(2) = "default"

\* C2: a constructor call naming a library the loader cannot open ends
\* with the load error, and once it has raised, the temporary directory
\* it created no longer exists.
C2_LoadFailureCleansUp ==
    \A i \in Instances :
        /\ (Finished(i) /\ ~LibTable[libname[i]].opens)
              => (pc[i] = "raised" /\ err[i] = LoadError)
        /\ (pc[i] = "raised" /\ err[i] = LoadError) => tempdir[i] \notin fs

\* C3: whenever _terminate has run on an instance, it raised nothing and
\* the temporary directory of the instance is gone.
C3_TeardownAlwaysRemoves ==
    \A i \in Instances :
        torn[i].ran => (~torn[i].raised /\ torn[i].removed
                        /\ tempdir[i] \notin fs)

\* C4: an instance the caller has dropped is torn down while the process
\* is still running, so by the time the interpreter is exiting no dropped
\* instance is left whose teardown did not already run.
C4_DroppedIsCollected ==
    \A i \in Instances :
        (phase \in {"atexit", "exited"} /\ pc[i] = "done" /\ ~callerRef[i])
        => (torn[i].ran /\ torn[i].whileRunning)

C5_State ==
    \A i \in Instances :
        pc[i] = "done" =>
            /\ library_path[i] = Symlinks(LibTable[libname[i]].dlpath)
            /\ ~Inside(library_path[i], tempdir[i])
            /\ library_path[i] # library[i]

C5_Step ==
    \A i \in Instances :
        pc[i] = "done" => library_path'[i] = library_path[i]

\* C5: once construction has succeeded, library_path is the resolved path
\* of the named system library, not a path inside the temporary directory,
\* and no later step (a call, a drop, the teardown) changes it.
C5_LibraryPath == [](C5_State) /\ [][C5_Step]_vars

\* a constructed instance, called and torn down, still showing the path
C5_Witness ==
    /\ phase = "exited"
    /\ pc[1] = "done" /\ torn[1].ran
    /\ libname[1] = "espeak-ng"
    /\ library_path[1] = <<"usr", "lib", "libespeak-ng.so.1.52">>

\* C6: a low-level method called on an instance whose teardown has run
\* fails with an error and does not enter the native library.
C6_CallAfterTeardownFails ==
    lastCall.torn => (~lastCall.native /\ lastCall.outcome = "error")

\* C8: text_to_phonemes or synthetize called with a null text or with an
\* unknown mode flag is rejected with an error and the native function is
\* not invoked.
C8_ArgumentsValidated ==
    (lastCall.nullText \/ ~lastCall.knownMode)
        => (~lastCall.native /\ lastCall.outcome = "error")

Terms(i) == modules[library[i]].terms

C7_Order ==
    \A i \in Instances :
        /\ torn[i].terminated => torn[i].dirPresent
        /\ (library[i] # None /\ torn[i].removed) => Terms(i) = 1

\* C7 as claimed: every handle obtained by loading the copy has
\* espeak_Terminate called on it at most once at any time and exactly once
\* by the time the process has exited, the call being made while the
\* temporary directory still exists.
C7_Original ==
    /\ C7_Order
    /\ \A i \in Instances :
          library[i] # None =>
              /\ Terms(i) <= 1
              /\ phase = "exited" => Terms(i) = 1

\* C7 amended: the same for every handle whose library exports the espeak
\* entry points; on a handle of a library without them espeak_Terminate is
\* never called.
C7_TerminateOnce ==
    /\ C7_Order
    /\ \A i \in Instances :
          library[i] # None =>
              /\ Terms(i) <= 1
              /\ (phase = "exited" /\ modules[library[i]].api) => Terms(i) = 1
              /\ ~modules[library[i]].api => Terms(i) = 0

\* two handles, each terminated once before its directory was removed
C7_Witness ==
    /\ phase = "exited"
    /\ \A i \in {1, 2} :
          /\ library[i] # None
          /\ Terms(i) = 1
          /\ torn[i].dirPresent /\ torn[i].removed

C9_State ==
    \A i \in Instances :
        /\ IsPrefix(log[i], StepOrder)
        /\ library_path[i] # None => pc[i] = "done"
        /\ pc[i] = "raised" => (err[i] # "none" /\ Len(log[i]) < Len(StepOrder))
        /\ pc[i] = "done" => (err[i] = "none" /\ log[i] = StepOrder)
        /\ Finished(i) =>
              (pc[i] = "done" <=> (initRes[i] # <<>> /\ initRes[i][1] > 0))
        /\ (initRes[i] # <<>> /\ initRes[i][1] <= 0) => err[i] = InitError
        /\ initRes[i] # <<>> => Len(log[i]) >= 6

C9_Step ==
    \A i \in Instances :
        pc[i] = "raised" =>
            /\ pc'[i] = "raised"
            /\ log'[i] = log[i]
            /\ err'[i] = err[i]
            /\ library'[i] = library[i]

\* C9: __init__ runs its steps in the order mkdtemp, load, resolve, copy,
\* load copy, initialize, retain; a failing step is the last one run, its
\* error is raised and library_path stays unset; the call succeeds exactly
\* when espeak_Initialize was reached and returned a value above zero.
C9_ConstructionProtocol == [](C9_State) /\ [][C9_Step]_vars

\* one call stopped by espeak_Initialize returning 0, another succeeded
C9_Witness ==
    /\ pc[1] = "raised" /\ initRes[1] = <<0>> /\ err[1] = InitError
    /\ pc[2] = "done" /\ initRes[2] = <<1>>

\* C10: when espeak_Initialize returns a non-positive value the error is
\* raised with self._library already set, and the later teardown calls
\* espeak_Terminate on that handle while the temporary directory exists,
\* then removes it; teardown leaves espeak_Terminate out exactly when the
\* failure came before the copy was loaded.
C10_TerminateAfterFailedInit ==
    \A i \in Instances :
        /\ (initRes[i] # <<>> /\ initRes[i][1] <= 0) =>
              /\ pc[i] = "raised" /\ library[i] # None
              /\ torn[i].ran => /\ torn[i].terminated /\ torn[i].dirPresent
                                /\ torn[i].removed /\ Terms(i) = 1
        /\ torn[i].ran =>
              ((~torn[i].terminated /\ ~torn[i].raised)
                  <=> \A k \in 1..Len(log[i]) : log[i][k] # "load_copy")

\* a failed initialize followed by the teardown, and a teardown without
\* handle
C10_Witness ==
    /\ initRes[1] = <<-1>> /\ torn[1].ran /\ torn[1].terminated
    /\ pc[2] = "raised" /\ library[2] = None /\ torn[2].ran /\ torn[2].removed

====
